---- MODULE Spec2Model ----
(***************************************************************************)
(* A model of era_py.text.NumberedLines: a frozen dataclass that pairs a   *)
(* list of text lines with a list of original line numbers.                *)
(*                                                                         *)
(* Text is a sequence of characters; a character is one of Chars.  "LF"    *)
(* and "CR" are the line terminators the model draws ("CR" followed by     *)
(* "LF" is one terminator, as in str.splitlines), " " is whitespace and    *)
(* "a" is any other character.  Python's None is the record NoneV, an int  *)
(* n the record IntV(n).                                                   *)
(***************************************************************************)
EXTENDS Integers, Sequences, FiniteSets, TLC

VARIABLES op, args, recv, res, err, out, heap, insts, held, snap

vars == <<op, args, recv, res, err, out, heap, insts, held, snap>>
valueVars == <<op, args, recv, res, err, out>>
heapVars == <<heap, insts, held, snap>>

\* ---------------------------------------------------------------- bounds
MaxStrLen == 3
MaxItems == 3
MaxIndexLen == 2
MaxKey == 2
MaxPos == 5
MaxPad == 3
MaxLists == 5
MaxHeld == 2

\* ------------------------------------------------------------ characters
Chars == {"a", " ", "LF", "CR"}
LineBreaks == {"LF", "CR"}
Whitespace == {" ", "LF", "CR"}

RECURSIVE StringsUpTo(_)
StringsUpTo(n) ==
  IF n = 0 THEN {<<>>}
  ELSE LET shorter == StringsUpTo(n - 1)
       IN shorter \cup {Append(s, c) : s \in {t \in shorter : Len(t) = n - 1}, c \in Chars}

RECURSIVE SeqsUpTo(_, _)
SeqsUpTo(S, n) ==
  IF n = 0 THEN {<<>>}
  ELSE LET shorter == SeqsUpTo(S, n - 1)
       IN shorter \cup {Append(s, x) : s \in {t \in shorter : Len(t) = n - 1}, x \in S}

\* ------------------------------------------------------- Python's values
NoneV == [none |-> TRUE, v |-> 0]
IntV(n) == [none |-> FALSE, v |-> n]

\* An element of the iterable given to the constructor: a str, or an object
\* of another type (isinstance(item, str) is False).
StrItem(s) == [isstr |-> TRUE, s |-> s]
NonStrItem == [isstr |-> FALSE, s |-> <<>>]

\* The `lines` argument of the constructor: a str, an Iterable, or neither.
StrArg(s) == [kind |-> "str", s |-> s, items |-> <<>>]
IterArg(items) == [kind |-> "iter", s |-> <<>>, items |-> items]
OtherArg == [kind |-> "other", s |-> <<>>, items |-> <<>>]

\* The `index` argument: None, or an iterable of ints.
NoIndex == [given |-> FALSE, vals |-> <<>>]
IndexArg(vals) == [given |-> TRUE, vals |-> vals]

\* ----------------------------------------------------- str.splitlines()
\* The scan of str.splitlines(): a terminator ends the current line (an
\* empty one included), the terminator is dropped, and the text after the
\* last terminator is a line only when it is not empty.
RECURSIVE SplitFrom(_, _, _)
SplitFrom(s, i, cur) ==
  IF i > Len(s) THEN (IF cur = <<>> THEN <<>> ELSE <<cur>>)
  ELSE IF s[i] \in LineBreaks
       THEN LET j == IF s[i] = "CR" /\ i < Len(s) /\ s[i + 1] = "LF" THEN i + 2 ELSE i + 1
            IN <<cur>> \o SplitFrom(s, j, <<>>)
       ELSE SplitFrom(s, i + 1, Append(cur, s[i]))

splitlines(s) == SplitFrom(s, 1, <<>>)

\* [ln for item in items if isinstance(item, str) for ln in item.splitlines()]
RECURSIVE FlattenItems(_)
FlattenItems(items) ==
  IF items = <<>> THEN <<>>
  ELSE (IF Head(items).isstr THEN splitlines(Head(items).s) ELSE <<>>)
       \o FlattenItems(Tail(items))

\* A default index that numbers the lines from one.
RangeFromOne(n) == [i \in 1..n |-> i]

\* list(range(n))
Range(n) == [i \in 1..n |-> i - 1]

\* ------------------------------------------------------- list slicing
\* Python's seq[start:stop:step] (PySlice_AdjustIndices): a zero step is a
\* ValueError; a bound left out or out of range is clamped.
SliceStep(key) == IF key.step.none THEN 1 ELSE key.step.v

SliceStart(n, key) ==
  LET step == SliceStep(key)
      lower == IF step < 0 THEN -1 ELSE 0
      upper == IF step < 0 THEN n - 1 ELSE n
  IN IF key.start.none THEN (IF step < 0 THEN upper ELSE lower)
     ELSE IF key.start.v < 0
          THEN (IF key.start.v + n < lower THEN lower ELSE key.start.v + n)
          ELSE (IF key.start.v > upper THEN upper ELSE key.start.v)

SliceStop(n, key) ==
  LET step == SliceStep(key)
      lower == IF step < 0 THEN -1 ELSE 0
      upper == IF step < 0 THEN n - 1 ELSE n
  IN IF key.stop.none THEN (IF step < 0 THEN lower ELSE upper)
     ELSE IF key.stop.v < 0
          THEN (IF key.stop.v + n < lower THEN lower ELSE key.stop.v + n)
          ELSE (IF key.stop.v > upper THEN upper ELSE key.stop.v)

SliceLen(n, key) ==
  LET step == SliceStep(key)
      start == SliceStart(n, key)
      stop == SliceStop(n, key)
  IN IF step > 0
     THEN (IF start < stop THEN ((stop - start - 1) \div step) + 1 ELSE 0)
     ELSE (IF stop < start THEN ((start - stop - 1) \div (-step)) + 1 ELSE 0)

\* The positions (counted from 1) of seq that seq[key] takes, in the order
\* it takes them.
SlicePositions(n, key) ==
  [k \in 1..SliceLen(n, key) |-> SliceStart(n, key) + (k - 1) * SliceStep(key) + 1]

PySlice(seq, key) ==
  IF SliceStep(key) = 0
  THEN [err |-> "ValueError", items |-> <<>>]
  ELSE LET pos == SlicePositions(Len(seq), key)
       IN [err |-> "none", items |-> [k \in 1..Len(pos) |-> seq[pos[k]]]]

\* Item access that takes no negative position.
PyItemNoNegative(seq, p) ==
  IF p >= 0 /\ p < Len(seq) THEN [err |-> "none", items |-> <<seq[p + 1]>>]
  ELSE [err |-> "IndexError", items |-> <<>>]

\* Python's seq[p] for an int p: a negative p counts from the end.
PyItem(seq, p) ==
  IF p >= 0 /\ p < Len(seq) THEN [err |-> "none", items |-> <<seq[p + 1]>>]
  ELSE IF p < 0 /\ p >= -Len(seq) THEN [err |-> "none", items |-> <<seq[Len(seq) + p + 1]>>]
  ELSE [err |-> "IndexError", items |-> <<>>]

\* ------------------------------------------------------------ instances
NoInst == [live |-> FALSE, lines |-> <<>>, index |-> <<>>]
Inst(lines, index) == [live |-> TRUE, lines |-> lines, index |-> index]

NoOut == [n |-> 0, strs |-> <<>>]
Fail(e) == [err |-> e, inst |-> NoInst, out |-> NoOut]
Made(inst) == [err |-> "none", inst |-> inst, out |-> NoOut]
Gave(n, strs) == [err |-> "none", inst |-> NoInst, out |-> [n |-> n, strs |-> strs]]

\* The lines the constructor produces from its `lines` argument.
ProducedLines(a) ==
  IF a.kind = "str" THEN splitlines(a.s) ELSE FlattenItems(a.items)

\* A constructor that does not compare the two lengths.
NumberedLinesInitUnchecked(a, ix) ==
  IF a.kind = "other" THEN Fail("TypeError")
  ELSE LET lines_list == ProducedLines(a)
           index_list == IF ix.given THEN ix.vals ELSE Range(Len(lines_list))
       IN Made(Inst(lines_list, index_list))

\* A constructor that takes an input of any other type as no lines.
NumberedLinesInitLenient(a, ix) ==
  LET lines_list == IF a.kind = "other" THEN <<>> ELSE ProducedLines(a)
      index_list == IF ix.given THEN ix.vals ELSE Range(Len(lines_list))
  IN IF ix.given /\ Len(index_list) # Len(lines_list)
     THEN Fail("ValueError")
     ELSE Made(Inst(lines_list, index_list))

\* NumberedLines.__init__(lines, index)
NumberedLinesInit(a, ix) ==
  IF a.kind = "other" THEN Fail("TypeError")
  ELSE LET lines_list == ProducedLines(a)
           index_list == IF ix.given THEN ix.vals ELSE Range(Len(lines_list))
       IN IF ix.given /\ Len(index_list) # Len(lines_list)
          THEN Fail("ValueError")
          ELSE Made(Inst(lines_list, index_list))

\* A list of str handed to the constructor, as slicing and filtering do.
AsItems(lines) == IterArg([k \in 1..Len(lines) |-> StrItem(lines[k])])

\* NumberedLines.__len__ and __iter__
DunderLen(self) == Gave(Len(self.lines), <<>>)
DunderIter(self) == Gave(0, self.lines)

\* NumberedLines.__getitem__ with a slice key
GetSlice(self, key) ==
  LET ls == PySlice(self.lines, key)
      is == PySlice(self.index, key)
  IN IF ls.err # "none" THEN Fail(ls.err)
     ELSE NumberedLinesInit(AsItems(ls.items), IndexArg(is.items))

\* NumberedLines.__getitem__ with an int key
GetInt(self, p) ==
  LET r == PyItem(self.lines, p)
  IN IF r.err # "none" THEN Fail(r.err) ELSE Gave(0, r.items)

\* NumberedLines.reset_index
ResetIndex(self) ==
  NumberedLinesInit(AsItems(self.lines), IndexArg(Range(Len(self.lines))))

\* regex.search(line) is not None, for the patterns the model draws:
\* "blank" is ^\s*$, "has_a" is a, "any" is the empty pattern, "never" is (?!).
Patterns == {"blank", "has_a", "any", "never"}
Search(pat, line) ==
  CASE pat = "blank" -> \A k \in 1..Len(line) : line[k] \in Whitespace
    [] pat = "has_a" -> \E k \in 1..Len(line) : line[k] = "a"
    [] pat = "any" -> TRUE
    [] OTHER -> FALSE

\* A filter loop that puts each kept line before the ones kept so far.
RECURSIVE KeptFromPrepending(_, _, _, _)
KeptFromPrepending(self, pat, keep, k) ==
  IF k > Len(self.lines) \/ k > Len(self.index) THEN <<>>
  ELSE KeptFromPrepending(self, pat, keep, k + 1)
       \o (IF Search(pat, self.lines[k]) = keep THEN <<k>> ELSE <<>>)

\* The positions the loop of filter (keep = TRUE) or filter_out (keep =
\* FALSE) appends, in the order of zip(self.index, self.lines).
RECURSIVE KeptFrom(_, _, _, _)
KeptFrom(self, pat, keep, k) ==
  IF k > Len(self.lines) \/ k > Len(self.index) THEN <<>>
  ELSE (IF Search(pat, self.lines[k]) = keep THEN <<k>> ELSE <<>>)
       \o KeptFrom(self, pat, keep, k + 1)

\* NumberedLines.filter
Filter(self, pat) ==
  LET kept == KeptFrom(self, pat, TRUE, 1)
      keep_lines == [k \in 1..Len(kept) |-> self.lines[kept[k]]]
      keep_index == [k \in 1..Len(kept) |-> self.index[kept[k]]]
  IN NumberedLinesInit(AsItems(keep_lines), IndexArg(keep_index))

\* NumberedLines.filter_out
FilterOut(self, pat) ==
  LET kept == KeptFrom(self, pat, FALSE, 1)
      keep_lines == [k \in 1..Len(kept) |-> self.lines[kept[k]]]
      keep_index == [k \in 1..Len(kept) |-> self.index[kept[k]]]
  IN NumberedLinesInit(AsItems(keep_lines), IndexArg(keep_index))

\* NumberedLines.to_list
ToList(self) == Gave(0, self.lines)

\* str(n) for an int n >= 0
RECURSIVE Digits(_)
Digits(n) ==
  LET d == <<"0", "1", "2", "3", "4", "5", "6", "7", "8", "9">>
  IN IF n < 10 THEN <<d[n + 1]>> ELSE Append(Digits(n \div 10), d[(n % 10) + 1])

\* f"{i:0{pad}d}" for an int i >= 0
RECURSIVE ZeroPad(_, _)
ZeroPad(ds, pad) == IF Len(ds) >= pad THEN ds ELSE ZeroPad(<<"0">> \o ds, pad)

RECURSIVE MaxOf(_)
MaxOf(seq) ==
  IF Len(seq) = 1 THEN seq[1]
  ELSE LET m == MaxOf(Tail(seq)) IN IF seq[1] > m THEN seq[1] ELSE m

\* The pad of format when none is given.
DefaultPad(self) ==
  LET max_idx == IF self.index # <<>> THEN MaxOf(self.index) ELSE 0
      w == Len(Digits(max_idx))
  IN IF w > 2 THEN w ELSE 2

Shorter(m, n) == IF m < n THEN m ELSE n

\* NumberedLines.format: one string per pair of zip(self.index, self.lines)
FormatLines(self, pad) ==
  LET w == IF pad.none THEN DefaultPad(self) ELSE pad.v
  IN [k \in 1..Shorter(Len(self.index), Len(self.lines)) |->
        ZeroPad(Digits(self.index[k]), w) \o <<":", " ">> \o self.lines[k]]

Format(self, pad) == Gave(0, FormatLines(self, pad))

\* "\n  ".join(preview)
RECURSIVE Join(_)
Join(strs) ==
  IF strs = <<>> THEN <<>>
  ELSE IF Len(strs) = 1 THEN strs[1]
  ELSE strs[1] \o <<"LF", " ", " ">> \o Join(Tail(strs))

head == 5
tail == 5
buffer == 20

\* NumberedLines.__repr__
Repr(self) ==
  LET n == Len(self.lines)
      first == GetSlice(self, [start |-> NoneV, stop |-> IntV(head), step |-> NoneV])
      last == GetSlice(self, [start |-> IntV(-tail), stop |-> NoneV, step |-> NoneV])
  IN IF n <= head + tail + buffer
     THEN Gave(0, <<<<"NumberedLines([", "LF", " ", " ">>
                    \o Join(FormatLines(self, NoneV)) \o <<"LF", "])">>>>)
     ELSE IF first.err # "none" THEN Fail(first.err)
     ELSE IF last.err # "none" THEN Fail(last.err)
     ELSE Gave(0, <<<<"NumberedLines([", "LF", " ", " ">>
                    \o Join(FormatLines(first.inst, NoneV) \o <<<<"ELLIPSIS">>>>
                            \o FormatLines(last.inst, NoneV))
                    \o <<"LF", "])">>>>)

\* ------------------------------------------------------ the caller's inputs
ItemTexts == {<<>>, <<"a">>, <<" ">>, <<"a", "LF", " ">>}
Items == {StrItem(s) : s \in ItemTexts} \cup {NonStrItem}
IndexVals == {0, 3, 100}

LinesArgs ==
  {StrArg(s) : s \in StringsUpTo(MaxStrLen)}
  \cup {IterArg(items) : items \in SeqsUpTo(Items, MaxItems)}
  \cup {OtherArg}

IndexArgs == {NoIndex} \cup {IndexArg(v) : v \in SeqsUpTo(IndexVals, MaxIndexLen)}

OptInts(lo, hi) == {NoneV} \cup {IntV(n) : n \in lo..hi}

SliceKeys ==
  [start : OptInts(-MaxKey, MaxKey), stop : OptInts(-MaxKey, MaxKey),
   step : OptInts(-2, 2)]

Positions == (-MaxPos)..MaxPos
Pads == OptInts(0, MaxPad)

NoKey == [start |-> NoneV, stop |-> NoneV, step |-> NoneV]
NoArgs ==
  [lines |-> OtherArg, index |-> NoIndex, key |-> NoKey, pos |-> 0,
   pat |-> "never", pad |-> NoneV]

\* ------------------------------------------------------------- the calls
\* The caller holds one instance, recv, and calls an operation on it; the
\* call's outcome is recorded until the caller moves on (Keep).
Receivers == {x \in {recv} : x.live /\ op = "idle"}

Returns(name, a, self, r) ==
  /\ op' = name
  /\ args' = a
  /\ recv' = self
  /\ res' = r.inst
  /\ err' = r.err
  /\ out' = r.out
  /\ UNCHANGED heapVars

\* The constructor reads nothing but its arguments: the model calls it while
\* the caller holds no instance, which every later call would repeat.
CallNew ==
  /\ op = "idle"
  /\ ~recv.live
  /\ \E a \in LinesArgs, ix \in IndexArgs :
       Returns("new", [NoArgs EXCEPT !.lines = a, !.index = ix], NoInst,
            NumberedLinesInit(a, ix))

CallLen ==
  /\ Receivers # {}
  /\ \E self \in Receivers :
       Returns("len", NoArgs, self, DunderLen(self))

CallIter ==
  /\ Receivers # {}
  /\ \E self \in Receivers :
       Returns("iter", NoArgs, self, DunderIter(self))

CallGetItemInt ==
  /\ Receivers # {}
  /\ \E self \in Receivers :
       \E p \in Positions :
         Returns("getitem", [NoArgs EXCEPT !.pos = p], self, GetInt(self, p))

CallGetItemSlice ==
  /\ Receivers # {}
  /\ \E self \in Receivers :
       \E key \in SliceKeys :
         Returns("slice", [NoArgs EXCEPT !.key = key], self, GetSlice(self, key))

CallResetIndex ==
  /\ Receivers # {}
  /\ \E self \in Receivers :
       Returns("reset_index", NoArgs, self, ResetIndex(self))

CallFilter ==
  /\ Receivers # {}
  /\ \E self \in Receivers :
       \E pat \in Patterns :
         Returns("filter", [NoArgs EXCEPT !.pat = pat], self, Filter(self, pat))

CallFilterOut ==
  /\ Receivers # {}
  /\ \E self \in Receivers :
       \E pat \in Patterns :
         Returns("filter_out", [NoArgs EXCEPT !.pat = pat], self, FilterOut(self, pat))

CallFormat ==
  /\ Receivers # {}
  /\ \E self \in Receivers :
       \E pad \in Pads :
         Returns("format", [NoArgs EXCEPT !.pad = pad], self, Format(self, pad))

CallRepr ==
  /\ Receivers # {}
  /\ \E self \in Receivers :
       Returns("repr", NoArgs, self, Repr(self))

CallToList ==
  /\ Receivers # {}
  /\ \E self \in Receivers :
       Returns("to_list", NoArgs, self, ToList(self))

\* The caller moves on: it keeps the instance the call returned, if it
\* returned one (nl = nl[1:]), and the receiver otherwise.
Keep ==
  /\ op # "idle"
  /\ op' = "idle"
  /\ args' = NoArgs
  /\ recv' = IF res.live THEN res ELSE recv
  /\ res' = NoInst
  /\ err' = "none"
  /\ out' = NoOut
  /\ UNCHANGED heapVars

HeapInit ==
  /\ heap = <<>>
  /\ insts = <<>>
  /\ held = {}
  /\ snap = <<>>

Init ==
  /\ op = "idle"
  /\ args = NoArgs
  /\ recv = NoInst
  /\ res = NoInst
  /\ err = "none"
  /\ out = NoOut
  /\ HeapInit

Next ==
  \/ CallNew
  \/ CallLen
  \/ CallIter
  \/ CallGetItemInt
  \/ CallGetItemSlice
  \/ CallResetIndex
  \/ CallFilter
  \/ CallFilterOut
  \/ CallFormat
  \/ CallRepr
  \/ CallToList
  \/ Keep

Spec == Init /\ [][Next]_vars

\* ------------------------------------------------- lists and ownership
\* The same operations over list objects: heap[id] is the content of the
\* list object id, an instance is a pair of list ids, held is the set of
\* lists the caller holds itself (constructor arguments, to_list results),
\* and snap[i] is what instance i held when it was made, or after the
\* caller last wrote into i's own lists.
Cell(kind, v) == [kind |-> kind, v |-> v]

\* A new list object: list(x), a list comprehension, str.splitlines().
NewList(h, kind, v) == [heap |-> Append(h, Cell(kind, v)), id |-> Len(h) + 1]

\* The lines and index an instance reads through its two lists.
View(h, ref) ==
  Inst([k \in 1..Len(h[ref.lines].v) |-> h[ref.lines].v[k].s], h[ref.index].v)

NoRef == [lines |-> 0, index |-> 0]

\* The two lists __init__ stores: lines_list comes from splitlines() or the
\* comprehension, index_list from list(...): both are new objects.
StoreInstance(h, r) ==
  IF r.err # "none" THEN [err |-> r.err, heap |-> h, ref |-> NoRef]
  ELSE LET l == NewList(h, "items", AsItems(r.inst.lines).items)
           x == NewList(l.heap, "ints", r.inst.index)
       IN [err |-> "none", heap |-> x.heap, ref |-> [lines |-> l.id, index |-> x.id]]

\* to_list that hands out the list the instance holds.
ToListUnderlying(h, ref) == [heap |-> h, id |-> ref.lines]

\* NumberedLines.to_list: list(self.lines)
ToListObject(h, ref) == NewList(h, "items", h[ref.lines].v)

CallerItemLists == {<<StrItem(<<"a">>)>>, <<StrItem(<<"a", "LF", "a">>), NonStrItem>>}
CallerIntLists == {<<3>>, <<0, 3>>}
CallerTexts == {<<"a", "LF", "a">>}

HeldOf(kind) == {id \in held : heap[id].kind = kind}

Adds(made) ==
  /\ heap' = made.heap
  /\ IF made.err = "none"
     THEN /\ insts' = Append(insts, made.ref)
          /\ snap' = Append(snap, View(made.heap, made.ref))
     ELSE UNCHANGED <<insts, snap>>
  /\ UNCHANGED <<valueVars, held>>

\* The caller builds a list of its own.
CallerMakesList ==
  /\ Len(heap) < MaxLists
  /\ Cardinality(held) < MaxHeld
  /\ \E kind \in {"items", "ints"} :
       \E v \in (IF kind = "items" THEN CallerItemLists ELSE CallerIntLists) :
         /\ heap' = Append(heap, Cell(kind, v))
         /\ held' = held \cup {Len(heap) + 1}
  /\ UNCHANGED <<valueVars, insts, snap>>

\* NumberedLines(text), NumberedLines(text, index)
OwnNewFromText ==
  /\ Len(heap) + 2 <= MaxLists
  /\ \E s \in CallerTexts, ix \in {0} \cup HeldOf("ints") :
       Adds(StoreInstance(heap,
              NumberedLinesInit(StrArg(s),
                IF ix = 0 THEN NoIndex ELSE IndexArg(heap[ix].v))))

\* NumberedLines(collection), NumberedLines(collection, index)
OwnNewFromList ==
  /\ Len(heap) + 2 <= MaxLists
  /\ \E a \in HeldOf("items"), ix \in {0} \cup HeldOf("ints") :
       Adds(StoreInstance(heap,
              NumberedLinesInit(IterArg(heap[a].v),
                IF ix = 0 THEN NoIndex ELSE IndexArg(heap[ix].v))))

OwnSlice ==
  /\ Len(heap) + 2 <= MaxLists
  /\ \E i \in 1..Len(insts), stop \in {1}, step \in {-1, 1} :
       Adds(StoreInstance(heap,
              GetSlice(View(heap, insts[i]),
                       [start |-> NoneV, stop |-> IntV(stop), step |-> IntV(step)])))

OwnResetIndex ==
  /\ Len(heap) + 2 <= MaxLists
  /\ \E i \in 1..Len(insts) :
       Adds(StoreInstance(heap, ResetIndex(View(heap, insts[i]))))

OwnFilter ==
  /\ Len(heap) + 2 <= MaxLists
  /\ \E i \in 1..Len(insts), pat \in {"has_a"} :
       Adds(StoreInstance(heap, Filter(View(heap, insts[i]), pat)))

OwnFilterOut ==
  /\ Len(heap) + 2 <= MaxLists
  /\ \E i \in 1..Len(insts), pat \in {"blank"} :
       Adds(StoreInstance(heap, FilterOut(View(heap, insts[i]), pat)))

OwnToList ==
  /\ Len(heap) < MaxLists
  /\ Cardinality(held) < MaxHeld
  /\ \E i \in 1..Len(insts) :
       LET made == ToListObject(heap, insts[i])
       IN /\ heap' = made.heap
          /\ held' = held \cup {made.id}
  /\ UNCHANGED <<valueVars, insts, snap>>

\* len, iteration, integer access, format and repr read the two lists and
\* build their result from them: they leave every list as it is.
OwnReads == insts # <<>> /\ UNCHANGED vars

\* What the caller may put into a list of the given kind.
Written(kind) == IF kind = "items" THEN StrItem(<<" ">>) ELSE 100

\* list.append(x) by the caller, once for each list.
Mutated(c) ==
  IF c.v = <<>> \/ c.v[Len(c.v)] # Written(c.kind)
  THEN {Cell(c.kind, Append(c.v, Written(c.kind)))}
  ELSE {}

\* The caller changes a list it holds itself.
CallerMutatesHeld ==
  /\ \E id \in held :
       \E c \in Mutated(heap[id]) : heap' = [heap EXCEPT ![id] = c]
  /\ UNCHANGED <<valueVars, insts, held, snap>>

\* The caller changes a list of instance i in place (x.lines.append(...)):
\* i is expected to show the change, and no other instance is.
CallerMutatesInstance ==
  /\ \E i \in 1..Len(insts), f \in {"lines", "index"} :
       \E c \in Mutated(heap[insts[i][f]]) :
         /\ heap' = [heap EXCEPT ![insts[i][f]] = c]
         /\ snap' = [snap EXCEPT ![i] = View(heap', insts[i])]
  /\ UNCHANGED <<valueVars, insts, held>>

OwnNext ==
  \/ CallerMakesList
  \/ OwnNewFromText
  \/ OwnNewFromList
  \/ OwnSlice
  \/ OwnResetIndex
  \/ OwnFilter
  \/ OwnFilterOut
  \/ OwnToList
  \/ OwnReads
  \/ CallerMutatesHeld
  \/ CallerMutatesInstance

SpecOwn == Init /\ [][OwnNext]_vars

\* ================================================================ claims
\* What the claims say, stated from the receiver, the arguments and the
\* outcome of the recorded call.

\* The positions of s at which a line terminator ends ("CR" "LF" is one).
BreakEnds(s) ==
  {i \in 1..Len(s) :
     /\ s[i] \in LineBreaks
     /\ ~(s[i] = "CR" /\ i < Len(s) /\ s[i + 1] = "LF")}

BreakStart(s, i) == IF s[i] = "LF" /\ i > 1 /\ s[i - 1] = "CR" THEN i - 1 ELSE i

\* The lines of a text: the k-th line runs from the end of terminator k - 1
\* to the start of terminator k, and text left after the last terminator
\* is one more line.
LinesOf(s) ==
  LET ends == BreakEnds(s)
      nth(k) == CHOOSE e \in ends : Cardinality({x \in ends : x < e}) = k - 1
      from(k) == IF k = 1 THEN 1 ELSE nth(k - 1) + 1
      nb == Cardinality(ends)
      rest == SubSeq(s, from(nb + 1), Len(s))
      terminated == [k \in 1..nb |-> SubSeq(s, from(k), BreakStart(s, nth(k)) - 1)]
  IN IF rest = <<>> THEN terminated ELSE Append(terminated, rest)

RECURSIVE LinesOfItems(_)
LinesOfItems(items) ==
  IF items = <<>> THEN <<>>
  ELSE IF ~Head(items).isstr THEN LinesOfItems(Tail(items))
  ELSE LinesOf(Head(items).s) \o LinesOfItems(Tail(items))

LinesOfArg(a) == IF a.kind = "str" THEN LinesOf(a.s) ELSE LinesOfItems(a.items)

Pairs(x) == [k \in 1..Len(x.lines) |-> <<x.lines[k], x.index[k]>>]

Reverse(seq) == [k \in 1..Len(seq) |-> seq[Len(seq) + 1 - k]]

\* sub is seq with some entries left out: the entries kept, in seq's order.
RECURSIVE IsSubsequence(_, _)
IsSubsequence(sub, seq) ==
  IF sub = <<>> THEN TRUE
  ELSE IF seq = <<>> THEN FALSE
  ELSE IF Head(sub) = Head(seq) THEN IsSubsequence(Tail(sub), Tail(seq))
  ELSE IsSubsequence(sub, Tail(seq))

\* The positions of x whose line pat does (want = TRUE) or does not match.
Matching(x, pat, want) == {k \in 1..Len(x.lines) : Search(pat, x.lines[k]) = want}

\* seq restricted to the positions of P, in seq's order.
RECURSIVE Restrict(_, _, _)
Restrict(seq, P, k) ==
  IF k > Len(seq) THEN <<>>
  ELSE (IF k \in P THEN <<seq[k]>> ELSE <<>>) \o Restrict(seq, P, k + 1)

SetOf(seq) == {seq[k] : k \in 1..Len(seq)}
Distinct(seq) == Cardinality(SetOf(seq)) = Len(seq)

\* C1: a slice X[key] (key's step not zero) returns without error a new
\* instance whose index is X.index[key] and whose lines are X.lines[key].
C1_SliceIndexCorrespondence ==
  (op = "slice" /\ SliceStep(args.key) # 0) =>
    LET pos == SlicePositions(Len(recv.lines), args.key)
    IN /\ err = "none"
       /\ res.live
       /\ res.lines = [k \in 1..Len(pos) |-> recv.lines[pos[k]]]
       /\ res.index = [k \in 1..Len(pos) |-> recv.index[pos[k]]]

\* C2: X.filter(P) keeps exactly the lines where P holds and
\* X.filter_out(P) exactly those where it does not, each with its original
\* index value and in the original order; where X's index values are
\* pairwise distinct, the two results' index sets are disjoint, and their
\* union is the set of X.index.
C2_FilterComplementarity ==
  (op \in {"filter", "filter_out"}) =>
    LET mine == Matching(recv, args.pat, op = "filter")
        other == IF op = "filter" THEN FilterOut(recv, args.pat)
                 ELSE Filter(recv, args.pat)
    IN /\ err = "none"
       /\ res.live
       /\ res.lines = Restrict(recv.lines, mine, 1)
       /\ res.index = Restrict(recv.index, mine, 1)
       /\ other.err = "none"
       /\ SetOf(res.index) \cup SetOf(other.inst.index) = SetOf(recv.index)
       /\ Distinct(recv.index) => SetOf(res.index) \cap SetOf(other.inst.index) = {}

\* C3: X.reset_index() returns a new instance with X's lines and the index
\* 0..len(X)-1, and resetting the result again returns an equal instance.
C3_ResetIdempotence ==
  (op = "reset_index") =>
    /\ err = "none"
    /\ res.live
    /\ res.lines = recv.lines
    /\ res.index = [k \in 1..Len(recv.lines) |-> k - 1]
    /\ ResetIndex(res) = Made(res)

\* C6: on an instance that construction produced, slicing (step not zero),
\* filter, filter_out, reset_index, format and to_list never raise an error.
C6_TransformationsTotal ==
  (\/ op \in {"filter", "filter_out", "reset_index", "format", "to_list"}
   \/ (op = "slice" /\ SliceStep(args.key) # 0))
    => err = "none"

\* C4: every instance has as many lines as index values, and construction
\* with an explicit index whose length differs from the number of lines
\* produced fails with the length-mismatch error and creates no instance.
C4_LengthInvariant ==
  /\ recv.live => Len(recv.lines) = Len(recv.index)
  /\ res.live => Len(res.lines) = Len(res.index)
  /\ (/\ op = "new"
      /\ args.lines.kind # "other"
      /\ args.index.given
      /\ Len(args.index.vals) # Len(LinesOfArg(args.lines)))
     => (err = "ValueError" /\ ~res.live)

C4_Witness ==
  /\ op = "new"
  /\ args.lines.kind = "iter"
  /\ args.index.given
  /\ Len(args.index.vals) = Len(args.lines.items)
  /\ Len(args.index.vals) # Len(LinesOfArg(args.lines))
  /\ err = "ValueError"

\* C7: construction without an explicit index yields, from a string, its
\* lines in order and, from a collection, the lines of its string elements
\* in element order (other elements give none), with the index 0..n-1.
C7_DefaultConstruction ==
  (op = "new" /\ ~args.index.given /\ args.lines.kind # "other") =>
    /\ err = "none"
    /\ res.live
    /\ res.lines = LinesOfArg(args.lines)
    /\ res.index = [k \in 1..Len(res.lines) |-> k - 1]

C7_Witness ==
  /\ op = "new"
  /\ ~args.index.given
  /\ args.lines.kind = "iter"
  /\ \E k \in 1..Len(args.lines.items) : ~args.lines.items[k].isstr
  /\ \E k \in 1..Len(args.lines.items) : Len(LinesOf(args.lines.items[k].s)) = 2
  /\ res.index = <<0, 1>>

\* C8 as stated: X[p] is the line at p when 0 <= p < len(X), and an
\* out-of-range error for every other p.
C8_Original ==
  (op = "getitem") =>
    LET n == Len(recv.lines)
        p == args.pos
    IN /\ (0 <= p /\ p < n) => (err = "none" /\ out.strs = <<recv.lines[p + 1]>>)
       /\ (p < 0 \/ p >= n) => err = "IndexError"

\* C8 as amended: X[p] is the line at p when 0 <= p < len(X), the line at
\* len(X) + p when -len(X) <= p < 0, and an out-of-range error when
\* p >= len(X) or p < -len(X).
C8_IntegerAccess ==
  (op = "getitem") =>
    LET n == Len(recv.lines)
        p == args.pos
    IN /\ (0 <= p /\ p < n) => (err = "none" /\ out.strs = <<recv.lines[p + 1]>>)
       /\ (-n <= p /\ p < 0) => (err = "none" /\ out.strs = <<recv.lines[n + p + 1]>>)
       /\ (p < -n \/ p >= n) => err = "IndexError"

C8_Witness ==
  /\ op = "getitem"
  /\ args.pos < -1
  /\ err = "none"
  /\ out.strs = <<recv.lines[1]>>
  /\ recv.lines[1] # recv.lines[Len(recv.lines)]

\* C9 as stated: an instance derived by a slice with any start, stop and
\* step, by filter or by filter_out holds (line, index) pairs that are a
\* subsequence of the receiver's, in the same order; reset_index keeps the
\* lines in order.
C9_Original ==
  /\ (op \in {"slice", "filter", "filter_out"} /\ res.live)
       => IsSubsequence(Pairs(res), Pairs(recv))
  /\ (op = "reset_index" /\ res.live) => res.lines = recv.lines

\* C9 as amended: an instance derived by filter, by filter_out or by a
\* slice with a positive step holds pairs that are a subsequence of the
\* receiver's in the same order; one derived by a slice with a negative
\* step holds such a subsequence in reverse order; reset_index keeps the
\* lines in order.
C9_OrderPreservation ==
  /\ (/\ res.live
      /\ \/ op \in {"filter", "filter_out"}
         \/ (op = "slice" /\ SliceStep(args.key) > 0))
       => IsSubsequence(Pairs(res), Pairs(recv))
  /\ (op = "slice" /\ res.live /\ SliceStep(args.key) < 0)
       => IsSubsequence(Reverse(Pairs(res)), Pairs(recv))
  /\ (op = "reset_index" /\ res.live) => res.lines = recv.lines

C9_Witness ==
  /\ op = "slice"
  /\ SliceStep(args.key) < 0
  /\ res.live
  /\ Len(res.lines) >= 2
  /\ Pairs(res) = Reverse(Pairs(recv))
  /\ ~IsSubsequence(Pairs(res), Pairs(recv))

\* The input is a collection with an element that is not a string.
HasNonStr(a) == a.kind = "iter" /\ \E k \in 1..Len(a.items) : ~a.items[k].isstr

\* C10 as stated: an input that is neither a string nor an iterable of
\* strings fails construction with a type error and creates no instance.
C10_Original ==
  (op = "new" /\ (args.lines.kind = "other" \/ HasNonStr(args.lines)))
    => (err = "TypeError" /\ ~res.live)

\* C10 as amended: an input that is neither a string nor an iterable fails
\* construction with a type error and creates no instance; an iterable
\* raises no type error, whatever its elements are.
C10_TypeError ==
  (op = "new") =>
    /\ args.lines.kind = "other" => (err = "TypeError" /\ ~res.live)
    /\ args.lines.kind # "other" => err # "TypeError"

C10_Witness ==
  /\ op = "new"
  /\ args.lines.kind = "other"
  /\ args.index.given
  /\ err = "TypeError"
  /\ ~res.live

\* The list objects in use, counted with repetition, are all different.
NoSharing ==
  Cardinality(held \cup {insts[i].lines : i \in 1..Len(insts)}
                   \cup {insts[i].index : i \in 1..Len(insts)})
    = Cardinality(held) + 2 * Len(insts)

====
